---- MODULE Spec2Model ----
(***************************************************************************)
(* Client-side product search of the storefront (app.js): the Trie, the    *)
(* SearchEngine (buildIndex, levenshteinDistance, calculateScore, search), *)
(* the debounce utility and the ECommerceApp search handlers.              *)
(*                                                                         *)
(* A string is a sequence of one-character strings, so <<"a","b">> is the  *)
(* JavaScript string "ab" and <<>> is "".                                  *)
(***************************************************************************)
EXTENDS Integers, Sequences, FiniteSets, TLC

VARIABLES
    trie,                  \* a Trie under direct use: path -> TrieNode
    inserted,              \* history: the (word, product) pairs given to Trie.insert
    trieCall,              \* history: the last Trie.search call and what it returned
    searchEngine,          \* the global SearchEngine: trie, products, searchIndex
    lastSearch,            \* history: the last SearchEngine.search call and its outcome
    lastCall,              \* history: the last direct call of levenshteinDistance or
                           \* calculateScore and what it returned
    builds,                \* history: the last two buildIndex calls, each with the
                           \* catalog it was given and the engine it left
    calls,                 \* history: the search calls made since the last buildIndex
    phase,                 \* ECommerceApp.init: "loading" until loadInitialData is done
    searchQuery,           \* app.searchQuery
    searchResults,         \* app.searchResults
    isSearching,           \* app.isSearching
    selectedSearchIndex,   \* app.selectedSearchIndex
    searchDropdownVisible, \* app.searchDropdownVisible
    timeout,               \* the variable timeout of the debounce closure (0: undefined)
    timers,                \* the scheduled debounce timers: handle -> args, due
    dropdown,              \* the .search-dropdown element of the document, if any
    removals,              \* the elements a timer of hideSearchDropdown will remove
    dismissed,             \* history: hideSearchDropdown has hidden a visible dropdown
                           \* since the last input event
    route,                 \* window.location, as history.pushState of navigate sets it
    inputValue,            \* the value of the .search-input element in the document
    inputs,                \* history: the number of input events so far
    burst,                 \* history: the arguments of the calls of the current burst
    ran,                   \* history: the arguments performSearch ran with since it began
    cancelled,             \* history: the handles clearTimeout removed
    fired                  \* history: the handles whose callback ran

trieVars == <<trie, inserted, trieCall>>
historyVars == <<lastCall, builds, calls>>
engineVars == <<searchEngine, lastSearch, historyVars>>
fieldVars == <<searchQuery, searchResults, isSearching, selectedSearchIndex,
               searchDropdownVisible>>
timerVars == <<timeout, timers, burst, ran, cancelled, fired>>
pageVars == <<route, inputValue>>
domVars == <<dropdown, removals, dismissed, pageVars>>
appVars == <<phase, fieldVars, timerVars, domVars, inputs>>
vars == <<trieVars, engineVars, appVars>>

(***************************************************************************)
(* Strings                                                                 *)
(***************************************************************************)

\* String.prototype.toLowerCase on one character
LowerChar(c) ==
    CASE c = "A" -> "a"
      [] c = "B" -> "b"
      [] c = "C" -> "c"
      [] OTHER -> c

toLowerCase(s) == [i \in 1..Len(s) |-> LowerChar(s[i])]

\* what the regular expression class \s matches
IsSpace(c) == c = " "

\* String.prototype.trim
trim(s) ==
    LET nonSpace == {i \in 1..Len(s) : ~IsSpace(s[i])}
        Min(S) == CHOOSE x \in S : \A y \in S : x <= y
        Max(S) == CHOOSE x \in S : \A y \in S : x >= y
    IN  IF nonSpace = {} THEN <<>> ELSE SubSeq(s, Min(nonSpace), Max(nonSpace))

\* String.prototype.split(/\s+/): every maximal run of whitespace separates two
\* tokens, so a leading or trailing run leaves an empty token at that end
split(s) ==
    LET RECURSIVE go(_, _, _)
        go(i, cur, acc) ==
            IF i > Len(s) THEN Append(acc, cur)
            ELSE IF IsSpace(s[i])
                 THEN IF i > 1 /\ IsSpace(s[i - 1])
                      THEN go(i + 1, cur, acc)
                      ELSE go(i + 1, <<>>, Append(acc, cur))
                 ELSE go(i + 1, Append(cur, s[i]), acc)
    IN  go(1, <<>>, <<>>)

\* String.prototype.startsWith
startsWith(s, q) == Len(q) <= Len(s) /\ SubSeq(s, 1, Len(q)) = q

\* String.prototype.includes
includes(s, q) ==
    \E k \in 0..(Len(s) - Len(q)) : SubSeq(s, k + 1, k + Len(q)) = q

(***************************************************************************)
(* Products                                                                *)
(***************************************************************************)

\* A product record as the catalog API delivers it.  An absent category or
\* sku is the empty string: the code only tests them for truthiness.
Product(id, name, category, sku) ==
    [id |-> id, name |-> name, category |-> category, sku |-> sku]

ProductPool ==
    { Product(1, <<"a", "b">>, <<"c">>, <<>>),
      Product(2, <<"B", "a">>, <<"c">>, <<>>),
      Product(3, <<"A", " ", "b">>, <<>>, <<"s">>),
      Product(4, <<"a", "b", "b">>, <<"C", "a">>, <<>>),
      Product(1, <<"b">>, <<>>, <<>>) }

(***************************************************************************)
(* TrieNode and Trie                                                       *)
(*                                                                         *)
(* The tree is kept as a function from the path that leads to a node (the  *)
(* characters on the edges from the root) to the node's own fields;        *)
(* node.children[char] exists exactly when path \o <<char>> is in the      *)
(* domain.                                                                 *)
(***************************************************************************)

TrieNode == [isEndOfWord |-> FALSE, products |-> <<>>]

NewTrie == <<>> :> TrieNode

HasId(products, id) == \E i \in 1..Len(products) : products[i].id = id

\* A slip of insert: the product is recorded at the word's last node only.
TrieInsertLeafOnly(t, word, product) ==
    LET lowerWord == toLowerCase(word)
        RECURSIVE walk(_, _)
        walk(tr, k) ==
            IF k > Len(lowerWord) THEN tr
            ELSE LET path == SubSeq(lowerWord, 1, k)
                     t1 == IF path \in DOMAIN tr THEN tr ELSE (path :> TrieNode) @@ tr
                     t2 == IF k < Len(lowerWord) \/ HasId(t1[path].products, product.id)
                           THEN t1
                           ELSE [t1 EXCEPT ![path].products = Append(@, product)]
                 IN  walk(t2, k + 1)
    IN  [walk(t, 1) EXCEPT ![lowerWord].isEndOfWord = TRUE]

\* A slip of insert: the product is pushed without the test for its id.
TrieInsertNoDedup(t, word, product) ==
    LET lowerWord == toLowerCase(word)
        RECURSIVE walk(_, _)
        walk(tr, k) ==
            IF k > Len(lowerWord) THEN tr
            ELSE LET path == SubSeq(lowerWord, 1, k)
                     t1 == IF path \in DOMAIN tr THEN tr ELSE (path :> TrieNode) @@ tr
                 IN  walk([t1 EXCEPT ![path].products = Append(@, product)], k + 1)
    IN  [walk(t, 1) EXCEPT ![lowerWord].isEndOfWord = TRUE]

\* A slip of insert: the node of the first character is walked through
\* before the product is recorded, so it is recorded from the second on.
TrieInsertSkipsFirst(t, word, product) ==
    LET lowerWord == toLowerCase(word)
        RECURSIVE walk(_, _)
        walk(tr, k) ==
            IF k > Len(lowerWord) THEN tr
            ELSE LET path == SubSeq(lowerWord, 1, k)
                     t1 == IF path \in DOMAIN tr THEN tr ELSE (path :> TrieNode) @@ tr
                     t2 == IF k = 1 \/ HasId(t1[path].products, product.id)
                           THEN t1
                           ELSE [t1 EXCEPT ![path].products = Append(@, product)]
                 IN  walk(t2, k + 1)
    IN  [walk(t, 1) EXCEPT ![lowerWord].isEndOfWord = TRUE]

\* Trie.insert(word, product)
TrieInsert(t, word, product) ==
    LET lowerWord == toLowerCase(word)
        RECURSIVE walk(_, _)
        walk(tr, k) ==
            IF k > Len(lowerWord) THEN tr
            ELSE LET path == SubSeq(lowerWord, 1, k)
                     t1 == IF path \in DOMAIN tr THEN tr ELSE (path :> TrieNode) @@ tr
                     t2 == IF HasId(t1[path].products, product.id)
                           THEN t1
                           ELSE [t1 EXCEPT ![path].products = Append(@, product)]
                 IN  walk(t2, k + 1)
    IN  [walk(t, 1) EXCEPT ![lowerWord].isEndOfWord = TRUE]

\* A slip of search: a failed walk answers with the last node it reached.
TrieSearchLastNode(t, prefix) ==
    LET lowerPrefix == toLowerCase(prefix)
        RECURSIVE walk(_)
        walk(k) ==
            IF k > Len(lowerPrefix) THEN t[lowerPrefix].products
            ELSE IF SubSeq(lowerPrefix, 1, k) \notin DOMAIN t
                 THEN t[SubSeq(lowerPrefix, 1, k - 1)].products
                 ELSE walk(k + 1)
    IN  walk(1)

\* Trie.search(prefix)
TrieSearch(t, prefix) ==
    LET lowerPrefix == toLowerCase(prefix)
        RECURSIVE walk(_)
        walk(k) ==
            IF k > Len(lowerPrefix) THEN t[lowerPrefix].products
            ELSE IF SubSeq(lowerPrefix, 1, k) \notin DOMAIN t
                 THEN <<>>
                 ELSE walk(k + 1)
    IN  walk(1)

(***************************************************************************)
(* SearchEngine                                                            *)
(***************************************************************************)

\* constructor(): an empty Trie, no products, an empty Map
NewSearchEngine == [trie |-> NewTrie, products |-> <<>>, searchIndex |-> <<>>]

\* addToIndex(term, product) on the Map searchIndex: term -> Set of ids
addToIndex(index, term, product) ==
    IF term \in DOMAIN index
    THEN [index EXCEPT ![term] = @ \cup {product.id}]
    ELSE (term :> {product.id}) @@ index

\* A slip of buildIndex: the sku of a product is not inserted.
IndexProductNoSku(engine, product) ==
    LET nameWords == split(toLowerCase(product.name))
        RECURSIVE words(_, _)
        words(e, k) ==
            IF k > Len(nameWords) THEN e
            ELSE words([e EXCEPT !.trie = TrieInsert(@, nameWords[k], product),
                                 !.searchIndex = addToIndex(@, nameWords[k], product)],
                       k + 1)
        e1 == words(engine, 1)
        e2 == [e1 EXCEPT !.trie = TrieInsert(@, product.name, product)]
    IN  IF product.category # <<>>
        THEN [e2 EXCEPT !.trie = TrieInsert(@, product.category, product),
                        !.searchIndex =
                            addToIndex(@, toLowerCase(product.category), product)]
        ELSE e2

\* the body of products.forEach in buildIndex, for one product
IndexProduct(engine, product) ==
    LET nameWords == split(toLowerCase(product.name))
        RECURSIVE words(_, _)
        words(e, k) ==
            IF k > Len(nameWords) THEN e
            ELSE words([e EXCEPT !.trie = TrieInsert(@, nameWords[k], product),
                                 !.searchIndex = addToIndex(@, nameWords[k], product)],
                       k + 1)
        e1 == words(engine, 1)
        e2 == [e1 EXCEPT !.trie = TrieInsert(@, product.name, product)]
        e3 == IF product.category # <<>>
              THEN [e2 EXCEPT !.trie = TrieInsert(@, product.category, product),
                              !.searchIndex =
                                  addToIndex(@, toLowerCase(product.category), product)]
              ELSE e2
    IN  IF product.sku # <<>>
        THEN [e3 EXCEPT !.trie = TrieInsert(@, product.sku, product)]
        ELSE e3

\* A slip of buildIndex: an early return for the catalog the engine already
\* holds, placed after the trie and the index were emptied.
buildIndexSkipsSame(engine, products) ==
    LET RECURSIVE each(_, _)
        each(e, k) ==
            IF k > Len(products) THEN e ELSE each(IndexProduct(e, products[k]), k + 1)
        cleared == [trie |-> NewTrie, products |-> products, searchIndex |-> <<>>]
    IN  IF engine.products = products THEN cleared ELSE each(cleared, 1)

\* A slip of buildIndex: the trie and the index of the last build are kept
\* and added to.
buildIndexKeepsOld(engine, products) ==
    LET RECURSIVE each(_, _)
        each(e, k) ==
            IF k > Len(products) THEN e ELSE each(IndexProduct(e, products[k]), k + 1)
    IN  each([engine EXCEPT !.products = products], 1)

\* A slip of buildIndex: the snapshot is taken whole but the loop over the
\* products is left after the first one.
buildIndexFirstOnly(engine, products) ==
    LET cleared == [trie |-> NewTrie, products |-> products, searchIndex |-> <<>>]
    IN  IF Len(products) = 0 THEN cleared ELSE IndexProduct(cleared, products[1])

\* buildIndex(products)
buildIndex(engine, products) ==
    LET RECURSIVE each(_, _)
        each(e, k) ==
            IF k > Len(products) THEN e ELSE each(IndexProduct(e, products[k]), k + 1)
    IN  each([trie |-> NewTrie, products |-> products, searchIndex |-> <<>>], 1)

Min2(a, b) == IF a <= b THEN a ELSE b
Max2(a, b) == IF a >= b THEN a ELSE b

\* A slip of levenshteinDistance: the rows are not swapped after a row is
\* filled, so prev stays the row of the empty prefix.
levenshteinDistanceNoSwap(str1, str2) ==
    LET m == Len(str1)
        n == Len(str2)
        RECURSIVE inner(_, _, _, _)
        inner(i, j, prev, curr) ==
            IF j > n THEN curr
            ELSE LET v == IF str1[i] = str2[j]
                          THEN prev[j]
                          ELSE 1 + Min2(Min2(prev[j], prev[j + 1]), curr[j])
                 IN  inner(i, j + 1, prev, [curr EXCEPT ![j + 1] = v])
        RECURSIVE outer(_, _, _)
        outer(i, prev, curr) ==
            IF i > m THEN (IF m = 0 THEN prev[n + 1] ELSE curr[n + 1])
            ELSE outer(i + 1, prev, inner(i, 1, prev, [curr EXCEPT ![1] = i]))
    IN  outer(1, [j \in 1..(n + 1) |-> j - 1], [j \in 1..(n + 1) |-> 0])

\* levenshteinDistance(str1, str2) with its two rows; row[j + 1] is the
\* JavaScript row[j]
levenshteinDistance(str1, str2) ==
    LET m == Len(str1)
        n == Len(str2)
        RECURSIVE inner(_, _, _, _)
        inner(i, j, prev, curr) ==
            IF j > n THEN curr
            ELSE LET v == IF str1[i] = str2[j]
                          THEN prev[j]
                          ELSE 1 + Min2(Min2(prev[j], prev[j + 1]), curr[j])
                 IN  inner(i, j + 1, prev, [curr EXCEPT ![j + 1] = v])
        RECURSIVE outer(_, _, _)
        outer(i, prev, curr) ==
            IF i > m THEN prev[n + 1]
            ELSE outer(i + 1, inner(i, 1, prev, [curr EXCEPT ![1] = i]), prev)
    IN  outer(1, [j \in 1..(n + 1) |-> j - 1], [j \in 1..(n + 1) |-> 0])

\* the sum of f[1] .. f[Len(f)]
SumSeq(f) ==
    LET RECURSIVE sum(_)
        sum(k) == IF k = 0 THEN 0 ELSE f[k] + sum(k - 1)
    IN  sum(Len(f))

\* Math.min over a non-empty array
MinOf(f) == CHOOSE x \in {f[i] : i \in 1..Len(f)} : \A i \in 1..Len(f) : x <= f[i]

\* A slip of calculateScore: the three tests of the name chained with else,
\* so that the first one that holds shuts out the others.
calculateScoreExclusive(product, query) ==
    LET lowerQuery == toLowerCase(query)
        lowerName == toLowerCase(product.name)
        lowerCategory == toLowerCase(product.category)
        queryWords == split(lowerQuery)
        nameWords == split(lowerName)
        wordBonus(qWord, nWord) ==
            IF nWord = qWord THEN 20 ELSE IF startsWith(nWord, qWord) THEN 10 ELSE 0
        minDistance ==
            MinOf([k \in 1..Len(nameWords) |-> levenshteinDistance(lowerQuery, nameWords[k])])
    IN    (IF lowerName = lowerQuery THEN 100
           ELSE IF startsWith(lowerName, lowerQuery) THEN 50
           ELSE IF includes(lowerName, lowerQuery) THEN 30 ELSE 0)
        + SumSeq([q \in 1..Len(queryWords) |->
                    SumSeq([w \in 1..Len(nameWords) |->
                              wordBonus(queryWords[q], nameWords[w])])])
        + (IF includes(lowerCategory, lowerQuery) THEN 15 ELSE 0)
        + (IF minDistance <= 2 THEN (3 - minDistance) * 5 ELSE 0)

\* calculateScore(product, query)
calculateScore(product, query) ==
    LET lowerQuery == toLowerCase(query)
        lowerName == toLowerCase(product.name)
        lowerCategory == toLowerCase(product.category)
        queryWords == split(lowerQuery)
        nameWords == split(lowerName)
        wordBonus(qWord, nWord) ==
            IF nWord = qWord THEN 20 ELSE IF startsWith(nWord, qWord) THEN 10 ELSE 0
        minDistance ==
            MinOf([k \in 1..Len(nameWords) |-> levenshteinDistance(lowerQuery, nameWords[k])])
    IN    (IF lowerName = lowerQuery THEN 100 ELSE 0)
        + (IF startsWith(lowerName, lowerQuery) THEN 50 ELSE 0)
        + (IF includes(lowerName, lowerQuery) THEN 30 ELSE 0)
        + SumSeq([q \in 1..Len(queryWords) |->
                    SumSeq([w \in 1..Len(nameWords) |->
                              wordBonus(queryWords[q], nameWords[w])])])
        + (IF includes(lowerCategory, lowerQuery) THEN 15 ELSE 0)
        + (IF minDistance <= 2 THEN (3 - minDistance) * 5 ELSE 0)

\* Map.prototype.set(product.id, product) on the Map results, kept as the
\* sequence of its values in insertion order
MapSet(results, product) ==
    IF HasId(results, product.id)
    THEN [i \in 1..Len(results) |->
            IF results[i].id = product.id THEN product ELSE results[i]]
    ELSE Append(results, product)

\* A slip of search: the Trie hits alone, with no pass over the products.
CandidatesTrieOnly(engine, trimmedQuery, limit) ==
    LET trieResults == TrieSearch(engine.trie, trimmedQuery)
        RECURSIVE fromTrie(_, _)
        fromTrie(results, k) ==
            IF k > Len(trieResults) THEN results
            ELSE fromTrie(MapSet(results, trieResults[k]), k + 1)
    IN  fromTrie(<<>>, 1)

\* A slip of search: the pass over the products admits every product the
\* Trie did not find, whether or not it matches.
CandidatesAdmitAll(engine, trimmedQuery, limit) ==
    LET trieResults == TrieSearch(engine.trie, trimmedQuery)
        RECURSIVE fromTrie(_, _)
        fromTrie(results, k) ==
            IF k > Len(trieResults) THEN results
            ELSE fromTrie(MapSet(results, trieResults[k]), k + 1)
        RECURSIVE fromProducts(_, _)
        fromProducts(results, k) ==
            IF k > Len(engine.products) THEN results
            ELSE LET product == engine.products[k]
                 IN  IF HasId(results, product.id)
                     THEN fromProducts(results, k + 1)
                     ELSE fromProducts(MapSet(results, product), k + 1)
        primary == fromTrie(<<>>, 1)
    IN  IF Len(primary) < limit THEN fromProducts(primary, 1) ELSE primary

\* A slip of search: the pass over the products does not skip the ids the Map
\* already has, so results.set puts a later record in place of the first.
CandidatesNoSkip(engine, trimmedQuery, limit) ==
    LET trieResults == TrieSearch(engine.trie, trimmedQuery)
        RECURSIVE fromTrie(_, _)
        fromTrie(results, k) ==
            IF k > Len(trieResults) THEN results
            ELSE fromTrie(MapSet(results, trieResults[k]), k + 1)
        queryLower == toLowerCase(trimmedQuery)
        isFuzzyMatch(product) ==
            LET nameWords == split(toLowerCase(product.name))
            IN  \E k \in 1..Len(nameWords) :
                    levenshteinDistance(queryLower, nameWords[k])
                        <= Max2(1, Len(queryLower) \div 3)
        isPartialMatch(product) ==
            \/ includes(toLowerCase(product.name), queryLower)
            \/ includes(toLowerCase(product.category), queryLower)
        RECURSIVE fromProducts(_, _)
        fromProducts(results, k) ==
            IF k > Len(engine.products) THEN results
            ELSE LET product == engine.products[k]
                 IN  IF isFuzzyMatch(product) \/ isPartialMatch(product)
                     THEN fromProducts(MapSet(results, product), k + 1)
                     ELSE fromProducts(results, k + 1)
        primary == fromTrie(<<>>, 1)
    IN  IF Len(primary) < limit THEN fromProducts(primary, 1) ELSE primary

\* steps 1 and 2 of search: the values of the Map results
Candidates(engine, trimmedQuery, limit) ==
    LET trieResults == TrieSearch(engine.trie, trimmedQuery)
        RECURSIVE fromTrie(_, _)
        fromTrie(results, k) ==
            IF k > Len(trieResults) THEN results
            ELSE fromTrie(MapSet(results, trieResults[k]), k + 1)
        queryLower == toLowerCase(trimmedQuery)
        isFuzzyMatch(product) ==
            LET nameWords == split(toLowerCase(product.name))
            IN  \E k \in 1..Len(nameWords) :
                    levenshteinDistance(queryLower, nameWords[k])
                        <= Max2(1, Len(queryLower) \div 3)
        isPartialMatch(product) ==
            \/ includes(toLowerCase(product.name), queryLower)
            \/ includes(toLowerCase(product.category), queryLower)
        RECURSIVE fromProducts(_, _)
        fromProducts(results, k) ==
            IF k > Len(engine.products) THEN results
            ELSE LET product == engine.products[k]
                 IN  IF HasId(results, product.id)
                     THEN fromProducts(results, k + 1)
                     ELSE IF isFuzzyMatch(product) \/ isPartialMatch(product)
                          THEN fromProducts(MapSet(results, product), k + 1)
                          ELSE fromProducts(results, k + 1)
        primary == fromTrie(<<>>, 1)
    IN  IF Len(primary) < limit THEN fromProducts(primary, 1) ELSE primary

\* the collation weight of a character at the primary level: white space
\* before letters, letters in alphabetical order whatever their case
PrimaryWeight(c) ==
    CASE IsSpace(c) -> 0
      [] LowerChar(c) = "a" -> 1
      [] LowerChar(c) = "b" -> 2
      [] LowerChar(c) = "c" -> 3
      [] OTHER -> 4

\* the code unit of a character, which orders strings under < and >
CodeUnit(c) ==
    CASE c = " " -> 32
      [] c = "A" -> 65
      [] c = "B" -> 66
      [] c = "C" -> 67
      [] c = "a" -> 97
      [] c = "b" -> 98
      [] c = "c" -> 99
      [] OTHER -> 115

\* the lexicographic comparison of two sequences of numbers: -1, 0 or 1
LexCompare(a, b) ==
    LET common == Min2(Len(a), Len(b))
        differ == {i \in 1..common : a[i] # b[i]}
        first == CHOOSE i \in differ : \A j \in differ : i <= j
    IN  IF differ # {}
        THEN IF a[first] < b[first] THEN -1 ELSE 1
        ELSE IF Len(a) < Len(b) THEN -1 ELSE IF Len(a) > Len(b) THEN 1 ELSE 0

PrimaryKey(s) == [i \in 1..Len(s) |-> PrimaryWeight(s[i])]
CaseKey(s) == [i \in 1..Len(s) |-> IF s[i] = LowerChar(s[i]) THEN 0 ELSE 1]
CodeUnits(s) == [i \in 1..Len(s) |-> CodeUnit(s[i])]

\* String.prototype.localeCompare: the primary level decides first; strings
\* equal at the primary level are ordered by case, lower case first
localeCompare(a, b) ==
    IF LexCompare(PrimaryKey(a), PrimaryKey(b)) # 0
    THEN LexCompare(PrimaryKey(a), PrimaryKey(b))
    ELSE LexCompare(CaseKey(a), CaseKey(b))

\* A slip of the comparator: names compared by code unit, as < and > do.
CompareByCodeUnit(a, b) ==
    IF b.searchScore # a.searchScore
    THEN b.searchScore - a.searchScore
    ELSE LexCompare(CodeUnits(a.name), CodeUnits(b.name))

\* the comparator given to scoredResults.sort
Compare(a, b) ==
    IF b.searchScore # a.searchScore
    THEN b.searchScore - a.searchScore
    ELSE localeCompare(a.name, b.name)

\* Array.prototype.sort with that comparator: a stable sort
Sort(arr) ==
    LET place(sorted, x) ==
            LET after == {i \in 1..Len(sorted) : Compare(sorted[i], x) > 0}
                at == IF after = {} THEN Len(sorted) + 1
                      ELSE CHOOSE i \in after : \A j \in after : i <= j
            IN  SubSeq(sorted, 1, at - 1) \o <<x>> \o SubSeq(sorted, at, Len(sorted))
        RECURSIVE run(_, _)
        run(sorted, k) == IF k > Len(arr) THEN sorted ELSE run(place(sorted, arr[k]), k + 1)
    IN  run(<<>>, 1)

\* A slip of the truncation: one entry too many.
SliceOneMore(arr, end) ==
    SubSeq(arr, 1, IF end < 0 THEN Max2(Len(arr) + end, 0) ELSE Min2(end + 1, Len(arr)))

\* Array.prototype.slice(0, end): a negative end counts from the end
Slice(arr, end) ==
    SubSeq(arr, 1, IF end < 0 THEN Max2(Len(arr) + end, 0) ELSE Min2(end, Len(arr)))

\* { ...product, searchScore: calculateScore(product, trimmedQuery) }
Scored(product, trimmedQuery) ==
    [id |-> product.id, name |-> product.name, category |-> product.category,
     sku |-> product.sku, searchScore |-> calculateScore(product, trimmedQuery)]

\* A slip of search: no early return for a blank query.
SearchRunNoGuard(engine, query, limit) ==
    LET trimmedQuery == trim(query)
        results == Candidates(engine, trimmedQuery, limit)
        scoredResults == [i \in 1..Len(results) |-> Scored(results[i], trimmedQuery)]
    IN  [results |-> Slice(Sort(scoredResults), limit),
         candidates |-> Len(results),
         scored |-> Len(results),
         admitted |-> results]

\* search(query, limit): what it returns, the size of the Map results, the
\* number of calculateScore calls it made and the values of the Map results
SearchRun(engine, query, limit) ==
    IF query = <<>> \/ Len(trim(query)) = 0
    THEN [results |-> <<>>, candidates |-> 0, scored |-> 0, admitted |-> <<>>]
    ELSE LET trimmedQuery == trim(query)
             results == Candidates(engine, trimmedQuery, limit)
             scoredResults == [i \in 1..Len(results) |-> Scored(results[i], trimmedQuery)]
         IN  [results |-> Slice(Sort(scoredResults), limit),
              candidates |-> Len(results),
              scored |-> Len(results),
              admitted |-> results]

search(engine, query, limit) == SearchRun(engine, query, limit).results

\* A slip of search: the score is written on the record of the snapshot
\* (product.searchScore = ...) instead of on a copy of it.
SearchEffectScoresInPlace(engine, query, limit) ==
    LET run == SearchRun(engine, query, limit)
        ScoreOf(product) ==
            LET hit == {i \in 1..Len(run.admitted) : run.admitted[i] = product}
            IN  IF hit = {} THEN product
                ELSE Scored(product, trim(query))
    IN  [engine EXCEPT !.products =
            [i \in 1..Len(engine.products) |-> ScoreOf(engine.products[i])]]

\* A slip of search: the products it ranked become the snapshot
\* (this.products = Array.from(results.values())).
SearchEffectKeepsAdmitted(engine, query, limit) ==
    IF query = <<>> \/ Len(trim(query)) = 0
    THEN engine
    ELSE [engine EXCEPT !.products = SearchRun(engine, query, limit).admitted]

\* A slip of search: the Map results is the array of the Trie node itself,
\* so the products the second pass admits are pushed on the node.
SearchEffectFillsNode(engine, query, limit) ==
    LET path == toLowerCase(trim(query))
    IN  IF query = <<>> \/ Len(trim(query)) = 0 \/ path \notin DOMAIN engine.trie
        THEN engine
        ELSE [engine EXCEPT !.trie[path].products =
                                SearchRun(engine, query, limit).admitted]

\* what search leaves of the engine: it assigns to no field of this, and the
\* arrays it fills and sorts (results, scoredResults) and the records it
\* scores ({...product}) are its own copies
SearchEffect(engine, query, limit) == engine

(***************************************************************************)
(* The Trie on its own: any sequence of insert and search calls            *)
(***************************************************************************)

MaxInserts == 2

WordPool ==
    { <<>>, <<"a">>, <<"A", "b">>, <<"a", "B", "a">>, <<"b">>, <<"B", "a">> }

PrefixPool ==
    WordPool \cup { <<"A">>, <<"a", "b">>, <<"a", "a">>, <<"b", "b">>, <<"c">>,
                    <<"a", "b", "a", "b">> }

NoCall == [made |-> FALSE]

NoHistory ==
    /\ lastCall = NoCall
    /\ builds = <<>>
    /\ calls = <<>>

EngineIdle ==
    /\ searchEngine = NewSearchEngine
    /\ lastSearch = NoCall
    /\ NoHistory

NoDropdown == [present |-> FALSE]

\* the location the page is loaded at
HomeRoute == [path |-> "/"]

\* the fields the ECommerceApp constructor sets, and the debounce closure it makes
AppConstructed ==
    /\ phase = "loading"
    /\ searchQuery = <<>>
    /\ searchResults = <<>>
    /\ isSearching = FALSE
    /\ selectedSearchIndex = -1
    /\ searchDropdownVisible = FALSE
    /\ timeout = 0
    /\ timers = <<>>
    /\ dropdown = NoDropdown
    /\ removals = {}
    /\ dismissed = FALSE
    /\ route = HomeRoute
    /\ inputValue = <<>>
    /\ inputs = 0
    /\ burst = <<>>
    /\ ran = <<>>
    /\ cancelled = {}
    /\ fired = {}

InitTrie ==
    /\ trie = NewTrie
    /\ inserted = {}
    /\ trieCall = NoCall
    /\ EngineIdle
    /\ AppConstructed

Insert(word, product) ==
    /\ Cardinality(inserted) < MaxInserts
    /\ trie' = TrieInsert(trie, word, product)
    /\ inserted' = inserted \cup {<<word, product>>}
    /\ trieCall' = NoCall
    /\ UNCHANGED <<engineVars, appVars>>

PrefixSearch(prefix) ==
    /\ trieCall' = [made |-> TRUE, prefix |-> prefix, result |-> TrieSearch(trie, prefix)]
    /\ UNCHANGED <<trie, inserted>>
    /\ UNCHANGED <<engineVars, appVars>>

NextTrie ==
    \/ \E word \in WordPool, product \in ProductPool : Insert(word, product)
    \/ \E prefix \in PrefixPool : PrefixSearch(prefix)

TrieSpec == InitTrie /\ [][NextTrie]_vars

\* the non-empty prefixes of a string
Prefixes(s) == {SubSeq(s, 1, k) : k \in 1..Len(s)}

\* C5: after any sequence of Trie.insert calls, every non-empty prefix of the
\* lowercased word of every inserted pair finds that pair's product (by its
\* identifier) through Trie.search.
C5_InsertedPrefixesFound ==
    \A pair \in inserted :
        \A p \in Prefixes(toLowerCase(pair[1])) :
            /\ HasId(TrieSearch(trie, p), pair[2].id)
            /\ (trieCall.made /\ trieCall.prefix = p) => HasId(trieCall.result, pair[2].id)

C5_Witness ==
    /\ trieCall.made
    /\ Len(trieCall.prefix) = 2
    /\ \E pair \in inserted :
           /\ Len(pair[1]) = 3
           /\ trieCall.prefix \in Prefixes(toLowerCase(pair[1]))
           /\ pair[1] # toLowerCase(pair[1])
           /\ HasId(trieCall.result, pair[2].id)

\* the set of elements of a sequence
Range(seq) == {seq[i] : i \in 1..Len(seq)}

\* the identifiers of a sequence of products
Ids(products) == {products[i].id : i \in 1..Len(products)}

\* the products inserted under a word that has the lowercased prefix as a prefix
InsertedUnder(prefix) ==
    {pair[2] : pair \in {q \in inserted : startsWith(toLowerCase(q[1]), toLowerCase(prefix))}}

\* C6: Trie.search returns the empty sequence for a prefix of no inserted
\* lowercased word, and every product it returns was inserted under a word that
\* has the prefix as a prefix.
C6_OnlyInsertedReturned ==
    /\ \A prefix \in PrefixPool :
           /\ Range(TrieSearch(trie, prefix)) \subseteq InsertedUnder(prefix)
           /\ InsertedUnder(prefix) = {} => TrieSearch(trie, prefix) = <<>>
    /\ trieCall.made =>
           /\ Range(trieCall.result) \subseteq InsertedUnder(trieCall.prefix)
           /\ InsertedUnder(trieCall.prefix) = {} => trieCall.result = <<>>

C6_Witness ==
    /\ trieCall.made
    /\ inserted # {}
    /\ trieCall.prefix # <<>>
    /\ InsertedUnder(trieCall.prefix) = {}
    /\ SubSeq(toLowerCase(trieCall.prefix), 1, 1) \in DOMAIN trie
    /\ trieCall.result = <<>>

\* C25: a node of the Trie holds at most one entry for a product identifier,
\* however many insertions of that identifier passed through the node.
C25_OneEntryPerId ==
    \A path \in DOMAIN trie :
        \A i, j \in 1..Len(trie[path].products) :
            trie[path].products[i].id = trie[path].products[j].id => i = j

\* two insertions of one identifier, under different words or with different
\* records, passed through a node that holds a single entry
C25_Witness ==
    \E path \in DOMAIN trie :
        /\ path # <<>>
        /\ Len(trie[path].products) = 1
        /\ Cardinality({pair \in inserted :
                            /\ pair[2].id = trie[path].products[1].id
                            /\ startsWith(toLowerCase(pair[1]), path)}) = 2

Parent(path) == SubSeq(path, 1, Len(path) - 1)

\* C29: the root holds no product, and every product of a node below the
\* first level is, by its identifier, a product of the node's parent, so a
\* longer prefix never finds a product the shorter one does not.
C29_ChildWithinParent ==
    /\ trie[<<>>].products = <<>>
    /\ \A path \in DOMAIN trie :
           Len(path) >= 2 =>
               /\ Parent(path) \in DOMAIN trie
               /\ Ids(trie[path].products) \subseteq Ids(trie[Parent(path)].products)
    /\ trieCall.made =>
           \A k \in 1..(Len(trieCall.prefix) - 1) :
               Ids(trieCall.result) \subseteq
                   Ids(TrieSearch(trie, SubSeq(trieCall.prefix, 1, k)))

\* a node of the second level holds a product and its parent holds two
C29_Witness ==
    \E path \in DOMAIN trie :
        /\ Len(path) = 2
        /\ Len(trie[path].products) = 1
        /\ Len(trie[Parent(path)].products) = 2

(***************************************************************************)
(* The SearchEngine on its own: buildIndex and search calls in any order   *)
(***************************************************************************)

MaxCatalog == 2
MaxLimit == 2

\* the product lists a catalog load may hand to buildIndex: no record twice
Catalogs ==
    {c \in UNION {[1..n -> ProductPool] : n \in 0..MaxCatalog} :
        \A i, j \in 1..Len(c) : c[i] = c[j] => i = j}

QueryPool ==
    { <<>>, <<" ">>, <<" ", " ">>, <<"a">>, <<" ", "A">>, <<"a", "b">>, <<"b">>,
      <<"c">>, <<"b", "a", " ">>, <<"s">>, <<"a", " ", "b">>, <<"a", "b", "c">> }

Limits == (-1)..MaxLimit

InitEngine ==
    /\ EngineIdle
    /\ trie = NewTrie
    /\ inserted = {}
    /\ trieCall = NoCall
    /\ AppConstructed

BuildIndex(products) ==
    /\ searchEngine' = buildIndex(searchEngine, products)
    /\ lastSearch' = NoCall
    /\ UNCHANGED <<historyVars, trieVars, appVars>>

EngineSearch(query, limit) ==
    /\ lastSearch' = [made |-> TRUE, query |-> query, limit |-> limit,
                      run |-> SearchRun(searchEngine, query, limit)]
    /\ searchEngine' = SearchEffect(searchEngine, query, limit)
    /\ UNCHANGED <<historyVars, trieVars, appVars>>

NextEngine ==
    \/ \E products \in Catalogs : BuildIndex(products)
    \/ \E query \in QueryPool, limit \in Limits : EngineSearch(query, limit)

EngineSpec == InitEngine /\ [][NextEngine]_vars

\* a query that is empty or only white space
Blank(query) == \A i \in 1..Len(query) : IsSpace(query[i])

\* C7: search returns the empty sequence for an empty or whitespace-only
\* query, whatever the catalog and the limit, and scores no product.
C7_BlankQueryEmpty ==
    (lastSearch.made /\ Blank(lastSearch.query)) =>
        /\ lastSearch.run.results = <<>>
        /\ lastSearch.run.scored = 0

C7_Witness ==
    /\ lastSearch.made
    /\ lastSearch.query = <<" ", " ">>
    /\ lastSearch.limit > 0
    /\ Len(searchEngine.products) = MaxCatalog
    /\ lastSearch.run.results = <<>>

\* C8: for a limit n >= 0, search returns exactly min(n, number of
\* candidates) results: never more than n, none for n = 0, and exactly n when
\* the Trie alone has at least n matches for the query.
C8_LimitEnforced ==
    (lastSearch.made /\ lastSearch.limit >= 0) =>
        /\ Len(lastSearch.run.results) = Min2(lastSearch.limit, lastSearch.run.candidates)
        /\ Len(lastSearch.run.results) <= lastSearch.limit
        /\ lastSearch.limit = 0 => lastSearch.run.results = <<>>
        /\ (~Blank(lastSearch.query)
            /\ Len(TrieSearch(searchEngine.trie, trim(lastSearch.query))) >= lastSearch.limit)
               => Len(lastSearch.run.results) = lastSearch.limit

C8_Witness ==
    /\ lastSearch.made
    /\ lastSearch.limit = 1
    /\ lastSearch.run.candidates = 2
    /\ Len(lastSearch.run.results) = 1

\* C9: a negative limit behaves like a limit of zero: search returns the empty
\* sequence.
C9_NegativeLimitEmpty ==
    (lastSearch.made /\ lastSearch.limit < 0) => lastSearch.run.results = <<>>

\* s comes before t, or equals it, in the lexicographic order of code units
LexLeq(s, t) == LexCompare(CodeUnits(s), CodeUnits(t)) <= 0

\* C10: the results are in non-increasing order of score, and adjacent results
\* of equal score are in ascending case-insensitive lexicographic order of name.
C10_RankedOrder ==
    lastSearch.made =>
        \A i \in 1..(Len(lastSearch.run.results) - 1) :
            LET a == lastSearch.run.results[i]
                b == lastSearch.run.results[i + 1]
            IN  /\ a.searchScore >= b.searchScore
                /\ a.searchScore = b.searchScore
                       => LexLeq(toLowerCase(a.name), toLowerCase(b.name))

C10_Witness ==
    /\ lastSearch.made
    /\ Len(lastSearch.run.results) = 2
    /\ lastSearch.run.results[1].searchScore = lastSearch.run.results[2].searchScore
    /\ lastSearch.run.results[1].name = <<"a", "b">>
    /\ lastSearch.run.results[2].name = <<"B", "a">>
    /\ searchEngine.products[1].name = <<"B", "a">>

\* the edit distance of two strings: the least number of insertions,
\* deletions and substitutions of one character that turn a into b
RECURSIVE EditDistance(_, _)
EditDistance(a, b) ==
    IF a = <<>> THEN Len(b)
    ELSE IF b = <<>> THEN Len(a)
    ELSE LET delete == 1 + EditDistance(Tail(a), b)
             insert == 1 + EditDistance(a, Tail(b))
             change == (IF Head(a) = Head(b) THEN 0 ELSE 1)
                           + EditDistance(Tail(a), Tail(b))
         IN  Min2(change, Min2(delete, insert))

\* some token of the lowercased name is within the edit threshold of the query
NearName(product, queryLower) ==
    LET tokens == split(toLowerCase(product.name))
        threshold == IF Len(queryLower) \div 3 > 1 THEN Len(queryLower) \div 3 ELSE 1
    IN  \E k \in 1..Len(tokens) : EditDistance(queryLower, tokens[k]) <= threshold

\* the lowercased name or the lowercased category contains the query
ContainsQuery(product, queryLower) ==
    \/ includes(toLowerCase(product.name), queryLower)
    \/ includes(toLowerCase(product.category), queryLower)

TrieHits == TrieSearch(searchEngine.trie, trim(lastSearch.query))

\* C11: when the Trie finds fewer than limit products for the trimmed query,
\* the products search ranks are, by identifier, exactly the Trie hits and
\* every product of the snapshot with a name token within max(1,
\* floor(len/3)) edits of the lowercased query or with the lowercased query
\* inside its lowercased name or category.
C11_AugmentedCandidates ==
    (/\ lastSearch.made
     /\ ~Blank(lastSearch.query)
     /\ Len(TrieHits) < lastSearch.limit) =>
        LET queryLower == toLowerCase(trim(lastSearch.query))
        IN  Ids(lastSearch.run.admitted) =
                Ids(TrieHits) \cup
                {product.id : product \in
                    {x \in Range(searchEngine.products) :
                        NearName(x, queryLower) \/ ContainsQuery(x, queryLower)}}

\* a query with one letter too many, which no prefix and no substring test
\* admits, returns the product it is a typo of
C11_Witness ==
    /\ lastSearch.made
    /\ lastSearch.query = <<"a", "b", "c">>
    /\ TrieHits = <<>>
    /\ Len(lastSearch.run.results) = 1
    /\ lastSearch.run.results[1].name = <<"a", "b">>
    /\ ~ContainsQuery(searchEngine.products[1], <<"a", "b", "c">>)

\* the texts of a product that buildIndex inserts in the Trie
Surfaces(product) ==
    Range(split(product.name)) \cup {product.name}
        \cup (IF product.category = <<>> THEN {} ELSE {product.category})
        \cup (IF product.sku = <<>> THEN {} ELSE {product.sku})

\* C16: after buildIndex(P), Trie.search finds every product of P, by its
\* identifier, under every non-empty prefix of each token of its lowercased
\* name, of its whole lowercased name, of its lowercased category and of its
\* lowercased sku, when it has them.
C16_AllSurfacesIndexed ==
    \A product \in Range(searchEngine.products) :
        \A surface \in Surfaces(product) :
            \A prefix \in Prefixes(toLowerCase(surface)) :
                product.id \in Ids(TrieSearch(searchEngine.trie, prefix))

\* a product is found by its sku alone and by a prefix of its whole name that
\* is a prefix of no token of it, another one by its category alone
C16_Witness ==
    /\ Len(searchEngine.products) = 2
    /\ searchEngine.products[1].sku = <<"s">>
    /\ searchEngine.products[1].name = <<"A", " ", "b">>
    /\ searchEngine.products[2].category = <<"C", "a">>
    /\ Ids(TrieSearch(searchEngine.trie, <<"s">>)) = {searchEngine.products[1].id}
    /\ Ids(TrieSearch(searchEngine.trie, <<"a", " ">>)) = {searchEngine.products[1].id}
    /\ Ids(TrieSearch(searchEngine.trie, <<"c">>)) = {searchEngine.products[2].id}

ProductFields == {"id", "name", "category", "sku"}

\* C18: a search leaves every record of the snapshot, and every record a Trie
\* node holds, with the fields and values it had: the score is a field of
\* the returned entries only.
C18_ProductsNotMutated ==
    [][lastSearch'.made =>
        /\ searchEngine'.products = searchEngine.products
        /\ \A i \in 1..Len(searchEngine'.products) :
               DOMAIN searchEngine'.products[i] = ProductFields
        /\ \A path \in DOMAIN searchEngine'.trie :
               \A i \in 1..Len(searchEngine'.trie[path].products) :
                   DOMAIN searchEngine'.trie[path].products[i] = ProductFields
        /\ \A i \in 1..Len(lastSearch'.run.results) :
               DOMAIN lastSearch'.run.results[i] = ProductFields \cup {"searchScore"}
      ]_vars

\* a search has returned two scored entries of a snapshot of two records
C18_Witness ==
    /\ lastSearch.made
    /\ Len(lastSearch.run.results) = 2
    /\ lastSearch.run.results[1].searchScore > 0
    /\ Len(searchEngine.products) = 2
    /\ \A i \in 1..2 : DOMAIN searchEngine.products[i] = ProductFields

\* nothing of the snapshot matches the query: no prefix of a surface, no
\* token within the edit threshold, no substring of the name or category
NoMatch(queryLower) ==
    \A product \in Range(searchEngine.products) :
        /\ \A surface \in Surfaces(product) :
               queryLower \notin Prefixes(toLowerCase(surface))
        /\ ~NearName(product, queryLower)
        /\ ~ContainsQuery(product, queryLower)

\* C19: search returns a sequence of scored entries for every query and
\* catalog, and the empty one when nothing of the snapshot matches the
\* query and when the snapshot is empty, built or not.
C19_NoMatchEmpty ==
    lastSearch.made =>
        /\ DOMAIN lastSearch.run.results = 1..Len(lastSearch.run.results)
        /\ \A i \in 1..Len(lastSearch.run.results) :
               lastSearch.run.results[i].searchScore \in Nat
        /\ searchEngine.products = <<>> => lastSearch.run.results = <<>>
        /\ NoMatch(toLowerCase(trim(lastSearch.query))) => lastSearch.run.results = <<>>

\* a query that matches nothing of a catalog of two products, with room for
\* both in the limit, has returned the empty sequence
C19_Witness ==
    /\ lastSearch.made
    /\ ~Blank(lastSearch.query)
    /\ lastSearch.limit = 2
    /\ Len(searchEngine.products) = 2
    /\ NoMatch(toLowerCase(trim(lastSearch.query)))
    /\ lastSearch.run.results = <<>>

\* C20: a step that is a search, with the calculateScore and
\* levenshteinDistance calls it makes, leaves the Trie with the products of
\* every node, the inverted index and the snapshot as they were: only
\* buildIndex changes them.
C20_OnlyBuildIndexWrites ==
    [][lastSearch'.made =>
        /\ DOMAIN searchEngine'.trie = DOMAIN searchEngine.trie
        /\ \A path \in DOMAIN searchEngine.trie :
               searchEngine'.trie[path] = searchEngine.trie[path]
        /\ searchEngine'.searchIndex = searchEngine.searchIndex
        /\ searchEngine'.products = searchEngine.products
      ]_vars

\* a search that ran both passes, scored and ranked has returned, and the
\* node of its query holds fewer products than it returned
C20_Witness ==
    /\ lastSearch.made
    /\ lastSearch.query = <<"a">>
    /\ Len(lastSearch.run.results) = 2
    /\ Len(TrieSearch(searchEngine.trie, <<"a">>)) = 1

\* the record of a scored entry without its score
Unscored(entry) ==
    [id |-> entry.id, name |-> entry.name, category |-> entry.category, sku |-> entry.sku]

\* the first record with the identifier in a sequence of products
FirstWithId(products, id) ==
    products[CHOOSE i \in 1..Len(products) :
                /\ products[i].id = id
                /\ \A j \in 1..(i - 1) : products[j].id # id]

\* the products of the snapshot that the second pass of search would admit
\* for the query of the last search, in the order of the snapshot
Matching ==
    LET queryLower == toLowerCase(trim(lastSearch.query))
        Matches(product) == NearName(product, queryLower) \/ ContainsQuery(product, queryLower)
    IN  SelectSeq(searchEngine.products, Matches)

\* C22: search returns no identifier twice, and the record it returns for an
\* identifier is the first one met with it, among the Trie hits and then
\* among the matching products of the snapshot.
C22_FirstSeenWins ==
    (lastSearch.made /\ ~Blank(lastSearch.query)) =>
        /\ \A i, j \in 1..Len(lastSearch.run.results) :
               lastSearch.run.results[i].id = lastSearch.run.results[j].id => i = j
        /\ \A i \in 1..Len(lastSearch.run.results) :
               Unscored(lastSearch.run.results[i]) =
                   FirstWithId(TrieHits \o Matching, lastSearch.run.results[i].id)

\* the snapshot has two records of one identifier that both match the query,
\* the Trie finds one only, and the result is that one, once
C22_Witness ==
    /\ lastSearch.made
    /\ lastSearch.limit = 2
    /\ Len(searchEngine.products) = 2
    /\ searchEngine.products[1].id = searchEngine.products[2].id
    /\ Len(TrieHits) = 1
    /\ \A i \in 1..2 :
           ContainsQuery(searchEngine.products[i], toLowerCase(trim(lastSearch.query)))
    /\ Len(lastSearch.run.results) = 1
    /\ Unscored(lastSearch.run.results[1]) = TrieHits[1]
    /\ TrieHits[1] = searchEngine.products[2]

\* C23: after buildIndex(P), every text inserted in the Trie for a product,
\* each name token, the whole name, the category and the sku, is in its
\* lowercased form a key of the inverted index, and the set under that key
\* has the identifier of the product.
C23_IndexParity ==
    \A product \in Range(searchEngine.products) :
        \A surface \in Surfaces(product) :
            /\ toLowerCase(surface) \in DOMAIN searchEngine.searchIndex
            /\ product.id \in searchEngine.searchIndex[toLowerCase(surface)]

(***************************************************************************)
(* A session of the engine with its history: the last two buildIndex calls *)
(* and the searches made since the last one                                *)
(***************************************************************************)

MaxCalls == 3

\* the catalogs a session loads, one after the other
SessionCatalogs ==
    { <<>>,
      << Product(1, <<"a", "b">>, <<"c">>, <<>>), Product(2, <<"B", "a">>, <<"c">>, <<>>) >>,
      << Product(2, <<"B", "a">>, <<"c">>, <<>>), Product(3, <<"A", " ", "b">>, <<>>, <<"s">>) >>,
      << Product(3, <<"A", " ", "b">>, <<>>, <<"s">>),
         Product(4, <<"a", "b", "b">>, <<"C", "a">>, <<>>) >>,
      << Product(5, <<"s", "s", "s">>, <<>>, <<"a", "b", "c">>),
         Product(1, <<"a", "b">>, <<"c">>, <<>>),
         Product(6, <<" ", "b">>, <<>>, <<>>) >> }

SessionQueries == { <<"a">>, <<"s">>, <<"a", "b", "c">> }

SessionLimits == {1, 2}

LastTwo(seq) == IF Len(seq) > 2 THEN SubSeq(seq, Len(seq) - 1, Len(seq)) ELSE seq

InitSession ==
    /\ EngineIdle
    /\ trie = NewTrie
    /\ inserted = {}
    /\ trieCall = NoCall
    /\ AppConstructed

SessionBuildIndex(products) ==
    /\ searchEngine' = buildIndex(searchEngine, products)
    /\ builds' = LastTwo(Append(builds, [products |-> products,
                                         engine |-> buildIndex(searchEngine, products)]))
    /\ calls' = <<>>
    /\ lastSearch' = NoCall
    /\ UNCHANGED <<lastCall, trieVars, appVars>>

SessionSearch(query, limit) ==
    /\ Len(calls) < MaxCalls
    /\ calls' = Append(calls, [query |-> query, limit |-> limit,
                               results |-> search(searchEngine, query, limit)])
    /\ lastSearch' = [made |-> TRUE, query |-> query, limit |-> limit,
                      run |-> SearchRun(searchEngine, query, limit)]
    /\ searchEngine' = SearchEffect(searchEngine, query, limit)
    /\ UNCHANGED <<lastCall, builds, trieVars, appVars>>

NextSession ==
    \/ \E products \in SessionCatalogs : SessionBuildIndex(products)
    \/ \E query \in SessionQueries, limit \in SessionLimits : SessionSearch(query, limit)

SessionSpec == InitSession /\ [][NextSession]_vars

BuiltTwice == Len(builds) = 2 /\ builds[1].products = builds[2].products

\* C14: buildIndex(P) called twice in a row leaves an engine that answers
\* every query, with every limit, as the engine left by the first call does.
C14_BuildIdempotent ==
    BuiltTwice =>
        \A query \in QueryPool, limit \in Limits :
            search(builds[2].engine, query, limit) = search(builds[1].engine, query, limit)

\* the same catalog with a product only its sku finds was built twice, and a
\* search by that sku has found it
C14_Witness ==
    /\ BuiltTwice
    /\ Len(calls) = 1
    /\ calls[1].query = <<"s">>
    /\ Len(calls[1].results) = 1
    /\ calls[1].results[1].id = 3

\* the products of the build before the last one that the last one lacks
Gone == Range(builds[1].products) \ Range(builds[2].products)

\* the terms buildIndex files a product under in the inverted index
TermsOf(product) ==
    Range(split(toLowerCase(product.name))) \cup
    (IF product.category = <<>> THEN {} ELSE {toLowerCase(product.category)})

\* C15: after buildIndex(P1) and then buildIndex(P2), nothing of a product
\* that is in P1 and not in P2 is left: it is not in the snapshot, in no Trie
\* node, under no term of the inverted index, whose terms are all terms of
\* P2, and in the results of no search.
C15_RebuildDiscards ==
    Len(builds) = 2 =>
        /\ Range(searchEngine.products) \cap Gone = {}
        /\ \A path \in DOMAIN searchEngine.trie :
               Range(searchEngine.trie[path].products) \cap Gone = {}
        /\ \A term \in DOMAIN searchEngine.searchIndex :
               /\ searchEngine.searchIndex[term] \subseteq
                      {product.id : product \in
                          {x \in Range(builds[2].products) : term \in TermsOf(x)}}
        /\ \A k \in 1..Len(calls) :
               Ids(calls[k].results) \cap {product.id : product \in Gone} = {}

\* a product of the first catalog that the query a found there is not in
\* the second catalog, and the query a has been searched again
C15_Witness ==
    /\ Len(builds) = 2
    /\ \E product \in Gone : product.id \in Ids(search(builds[1].engine, <<"a">>, 2))
    /\ Len(calls) = 1
    /\ calls[1].query = <<"a">>
    /\ calls[1].limit = 2
    /\ calls[1].results # <<>>

\* C17: two search calls with the same query and limit, made on the same
\* index, return the same sequence of products and scores, whatever was
\* searched between them.
C17_SearchDeterministic ==
    \A i, j \in 1..Len(calls) :
        (calls[i].query = calls[j].query /\ calls[i].limit = calls[j].limit) =>
            calls[i].results = calls[j].results

\* the same search was made before and after another one, and found something
C17_Witness ==
    /\ Len(calls) = 3
    /\ calls[1].query = calls[3].query
    /\ calls[1].limit = calls[3].limit
    /\ calls[2].query # calls[1].query
    /\ calls[1].results # <<>>
    /\ calls[2].results # <<>>

\* C24: no name of the snapshot gives an empty token when it is lowercased
\* and split on white space, and the empty term is no key of the inverted
\* index.
C24_NoEmptyToken ==
    /\ \A product \in Range(searchEngine.products) :
           <<>> \notin Range(split(toLowerCase(product.name)))
    /\ <<>> \notin DOMAIN searchEngine.searchIndex

FirstN(seq, n) == SubSeq(seq, 1, IF n < Len(seq) THEN n ELSE Len(seq))

\* C26: of two searches of one query on one index, the one with the smaller
\* limit n returns the first n entries of what the other returns.
C26_LimitConsistent ==
    \A i, j \in 1..Len(calls) :
        (/\ calls[i].query = calls[j].query
         /\ 0 <= calls[i].limit
         /\ calls[i].limit < calls[j].limit) =>
            calls[i].results = FirstN(calls[j].results, calls[i].limit)

\* C27: every entry search returns has a score above 0.
C27_PositiveScore ==
    \A k \in 1..Len(calls) :
        \A i \in 1..Len(calls[k].results) : calls[k].results[i].searchScore > 0

(***************************************************************************)
(* levenshteinDistance and calculateScore called on their own              *)
(***************************************************************************)

MaxStrLen == 2

Alphabet == {"a", "b", "c"}

kitten == <<"k", "i", "t", "t", "e", "n">>
sitting == <<"s", "i", "t", "t", "i", "n", "g">>

\* the strings given to levenshteinDistance
StringPool ==
    UNION {[1..k -> Alphabet] : k \in 0..MaxStrLen} \cup {kitten, sitting}

\* the queries given to calculateScore
ScoreQueryPool ==
    QueryPool \cup { <<"a", "b", "b">>, <<"c", "a">>, <<"b", " ", "a">>, <<"A", "B">> }

InitPure ==
    /\ EngineIdle
    /\ trie = NewTrie
    /\ inserted = {}
    /\ trieCall = NoCall
    /\ AppConstructed

LevenshteinDistance(str1, str2) ==
    /\ lastCall' = [made |-> TRUE, op |-> "levenshteinDistance",
                    str1 |-> str1, str2 |-> str2,
                    result |-> levenshteinDistance(str1, str2)]
    /\ UNCHANGED <<searchEngine, lastSearch, builds, calls, trieVars, appVars>>

CalculateScore(product, query) ==
    /\ lastCall' = [made |-> TRUE, op |-> "calculateScore",
                    product |-> product, query |-> query,
                    result |-> calculateScore(product, query)]
    /\ UNCHANGED <<searchEngine, lastSearch, builds, calls, trieVars, appVars>>

NextPure ==
    \/ \E str1 \in StringPool, str2 \in StringPool : LevenshteinDistance(str1, str2)
    \/ \E product \in ProductPool, query \in ScoreQueryPool : CalculateScore(product, query)

PureSpec == InitPure /\ [][NextPure]_vars

DistanceCalled == lastCall.made /\ lastCall.op = "levenshteinDistance"

ScoreCalled == lastCall.made /\ lastCall.op = "calculateScore"

\* the name and query tests of the score, each counted on its own
BandSum(product, query) ==
    LET q == toLowerCase(query)
        name == toLowerCase(product.name)
        category == toLowerCase(product.category)
        qWords == split(q)
        nWords == split(name)
        Occurs(text) ==
            \E i \in 1..(Len(text) + 1) :
                /\ i + Len(q) - 1 <= Len(text)
                /\ SubSeq(text, i, i + Len(q) - 1) = q
        pairs == (1..Len(qWords)) \X (1..Len(nWords))
        equal == {pr \in pairs : nWords[pr[2]] = qWords[pr[1]]}
        begins == {pr \in pairs \ equal :
                     /\ Len(qWords[pr[1]]) <= Len(nWords[pr[2]])
                     /\ SubSeq(nWords[pr[2]], 1, Len(qWords[pr[1]])) = qWords[pr[1]]}
        distances == {EditDistance(q, nWords[k]) : k \in 1..Len(nWords)}
        exact == IF name = q THEN 100 ELSE 0
        prefix == IF Len(q) <= Len(name) /\ SubSeq(name, 1, Len(q)) = q THEN 50 ELSE 0
        inside == IF Occurs(name) THEN 30 ELSE 0
        words == 20 * Cardinality(equal) + 10 * Cardinality(begins)
        inCategory == IF Occurs(category) THEN 15 ELSE 0
        fuzzy == IF 0 \in distances THEN 15
                 ELSE IF 1 \in distances THEN 10
                 ELSE IF 2 \in distances THEN 5 ELSE 0
    IN  exact + prefix + inside + words + inCategory + fuzzy

\* C12: calculateScore(product, query) is the sum of its bands, each added
\* whether or not another applies: 100 for a name equal to the query, 50 for
\* a name that starts with it, 30 for a name that contains it, 20 or 10 for
\* each pair of a query word and a name word that are equal or where the
\* name word starts with the query word, 15 for a category that contains
\* the query, and (3 - d) * 5 for a least edit distance d <= 2 between the
\* query and a name token.
C12_ScoreIsBandSum ==
    ScoreCalled => lastCall.result = BandSum(lastCall.product, lastCall.query)

\* a query equal to the name earns the bands of equality, of the prefix, of
\* the substring, of the word pair and of the distance 0 together
C12_Witness ==
    /\ ScoreCalled
    /\ toLowerCase(lastCall.product.name) = toLowerCase(lastCall.query)
    /\ lastCall.result = 100 + 50 + 30 + 20 + 15

\* C13: levenshteinDistance(a, b) is the edit distance of a and b; it is the
\* length of a when b is empty, 0 for two empty strings and 3 for kitten
\* and sitting.
C13_TrueEditDistance ==
    DistanceCalled =>
        /\ lastCall.result = EditDistance(lastCall.str1, lastCall.str2)
        /\ lastCall.str2 = <<>> => lastCall.result = Len(lastCall.str1)
        /\ lastCall.str1 = <<>> => lastCall.result = Len(lastCall.str2)
        /\ (lastCall.str1 = kitten /\ lastCall.str2 = sitting) => lastCall.result = 3

\* the two rows have been swapped six times when kitten meets sitting
C13_Witness ==
    /\ DistanceCalled
    /\ lastCall.str1 = kitten
    /\ lastCall.str2 = sitting
    /\ lastCall.result = 3

(***************************************************************************)
(* ECommerceApp: the search box, the debounce closure and the dropdown     *)
(***************************************************************************)

MaxInputs == 3

\* the limit performSearch passes to searchEngine.search
DropdownLimit == 8

\* what api.getProducts() or getMockProducts() may deliver to loadInitialData
LoadedCatalogs ==
    { <<>>,
      << Product(1, <<"a", "b">>, <<"c">>, <<>>), Product(2, <<"B", "a">>, <<"c">>, <<>>) >>,
      << Product(3, <<"A", " ", "b">>, <<>>, <<"s">>) >> }

\* the values the search input may hold when an input event fires
InputPool == { <<>>, <<" ">>, <<"a">>, <<"b", "a">> }

\* A slip of clearTimeout: the timer stays scheduled.
clearTimeoutKeeps(ts, handle) == ts

\* clearTimeout(handle): the timer, if still scheduled, will never run
clearTimeout(ts, handle) == [h \in DOMAIN ts \ {handle} |-> ts[h]]

\* setTimeout(later, wait) returning handle: a timer that is not due yet
setTimeout(ts, handle, args) == (handle :> [args |-> args, due |-> FALSE]) @@ ts

\* A slip of debounce: the arguments of the burst's first call are kept.
LaterArgsOfFirstCall(ts, handle, args) ==
    IF handle \in DOMAIN ts THEN ts[handle].args ELSE args

\* the arguments the closure later captures in executedFunction(...args)
LaterArgs(ts, handle, args) == args

\* A slip of debounce: the new timer is the one cleared.
ExecutedFunctionClearsNew(ts, handle, new, args) ==
    clearTimeout(setTimeout(ts, new, LaterArgs(ts, handle, args)), new)

\* executedFunction(...args) of debounce, on the scheduled timers:
\* clearTimeout(timeout); timeout = setTimeout(later, wait)
ExecutedFunction(ts, handle, new, args) ==
    setTimeout(clearTimeout(ts, handle), new, LaterArgs(ts, handle, args))

\* the handle setTimeout returns next
NextHandle == Cardinality(cancelled \cup fired \cup DOMAIN timers) + 1

\* hideSearchDropdown()
hideSearchDropdown ==
    /\ dropdown' = IF dropdown.present THEN [dropdown EXCEPT !.hiding = TRUE] ELSE dropdown
    /\ removals' = IF dropdown.present THEN removals \cup {dropdown.el} ELSE removals
    /\ searchDropdownVisible' = FALSE
    /\ selectedSearchIndex' = -1

\* this.debouncedSearch(query)
debouncedSearch(query) ==
    /\ timers' = ExecutedFunction(timers, timeout, NextHandle, query)
    /\ timeout' = NextHandle
    /\ cancelled' = cancelled \cup (DOMAIN timers \ DOMAIN clearTimeout(timers, timeout))
    /\ IF timeout \in DOMAIN timers /\ ~timers[timeout].due
       THEN burst' = Append(burst, query) /\ ran' = ran
       ELSE burst' = <<query>> /\ ran' = <<>>
    /\ UNCHANGED fired

\* init(): loadInitialData() is awaited before setupEventListeners() and
\* renderApp(), and builds the index when there are products
LoadInitialData(products) ==
    /\ phase = "loading"
    /\ phase' = "ready"
    /\ searchEngine' = IF Len(products) > 0
                       THEN buildIndex(searchEngine, products)
                       ELSE searchEngine
    /\ UNCHANGED <<lastSearch, historyVars, trieVars, fieldVars, timerVars, domVars,
                   inputs>>

\* the input listener on .search-input: handleSearch(e.target.value)
HandleSearch(query) ==
    /\ phase = "ready"
    /\ inputs < MaxInputs
    /\ inputs' = inputs + 1
    /\ searchQuery' = query
    /\ inputValue' = query
    /\ UNCHANGED route
    /\ IF Len(trim(query)) = 0
       THEN /\ searchResults' = <<>>
            /\ isSearching' = FALSE
            /\ hideSearchDropdown
            /\ dismissed' = searchDropdownVisible
            /\ UNCHANGED timerVars
       ELSE /\ debouncedSearch(query)
            /\ dismissed' = FALSE
            /\ UNCHANGED <<searchResults, isSearching, selectedSearchIndex,
                           searchDropdownVisible, dropdown, removals>>
    /\ UNCHANGED <<phase, engineVars, trieVars>>

\* the wait of a scheduled timer has elapsed
TimerExpire(handle) ==
    /\ handle \in DOMAIN timers
    /\ ~timers[handle].due
    /\ timers' = [timers EXCEPT ![handle].due = TRUE]
    /\ UNCHANGED <<phase, engineVars, trieVars, fieldVars, domVars, inputs,
                   timeout, burst, ran, cancelled, fired>>

\* the event loop runs a due timer: later() = clearTimeout(timeout);
\* func(...args), and func is performSearch
TimerFire(handle) ==
    /\ handle \in DOMAIN timers
    /\ timers[handle].due
    /\ LET query == timers[handle].args
           running == [h \in DOMAIN timers \ {handle} |-> timers[h]]
           results == search(searchEngine, query, DropdownLimit)
       IN  /\ timers' = clearTimeout(running, timeout)
           /\ cancelled' = cancelled \cup (DOMAIN running \ DOMAIN clearTimeout(running, timeout))
           /\ fired' = fired \cup {handle}
           /\ ran' = Append(ran, query)
           /\ IF Len(trim(query)) = 0
              THEN /\ hideSearchDropdown
                   /\ dismissed' = (dismissed \/ searchDropdownVisible)
                   /\ UNCHANGED <<searchResults, isSearching>>
              ELSE /\ searchResults' = results
                   /\ selectedSearchIndex' = -1
                   /\ dropdown' = [present |-> TRUE, hiding |-> FALSE, el |-> handle,
                                   query |-> query, results |-> results]
                   /\ searchDropdownVisible' = TRUE
                   /\ isSearching' = FALSE
                   /\ UNCHANGED <<removals, dismissed>>
    /\ searchEngine' = SearchEffect(searchEngine, timers[handle].args, DropdownLimit)
    /\ UNCHANGED <<phase, lastSearch, historyVars, trieVars, searchQuery, inputs,
                   timeout, burst, pageVars>>

\* the click listener of the document, for a click outside .search-container
ClickOutside ==
    /\ phase = "ready"
    /\ hideSearchDropdown
    /\ dismissed' = (dismissed \/ searchDropdownVisible)
    /\ UNCHANGED <<phase, engineVars, trieVars, searchQuery, searchResults, isSearching,
                   timerVars, inputs, pageVars>>

\* the timer of hideSearchDropdown runs: dropdown.remove()
DropdownRemove(el) ==
    /\ el \in removals
    /\ removals' = removals \ {el}
    /\ dropdown' = IF dropdown.present /\ dropdown.el = el THEN NoDropdown ELSE dropdown
    /\ UNCHANGED <<dismissed, pageVars>>
    /\ UNCHANGED <<phase, engineVars, trieVars, fieldVars, timerVars, inputs>>

\* the limit renderProductsPage passes to searchEngine.search
PageLimit == 100

\* the keys the keydown listener of .search-input tells apart; "a" stands for
\* every other key
Keys == {"ArrowDown", "ArrowUp", "Enter", "Escape", "a"}

\* /products?search=${encodeURIComponent(query)}, as renderProductsPage reads
\* it back with URLSearchParams.get('search'): the query itself
SearchRoute(query) == [path |-> "/products", search |-> query]

\* /product/${productId}
ProductRoute(id) == [path |-> "/product", id |-> id]

\* A slip of the ArrowDown case: the index is not clamped to maxIndex.
ArrowDownNoClamp(index, maxIndex) == index + 1

\* case 'ArrowDown': Math.min(this.selectedSearchIndex + 1, maxIndex)
ArrowDown(index, maxIndex) == Min2(index + 1, maxIndex)

\* case 'ArrowUp': Math.max(this.selectedSearchIndex - 1, -1)
ArrowUp(index) == Max2(index - 1, -1)

\* navigate(route): history.pushState, then renderApp() writes a new header
\* into #app, so the dropdown of the old header leaves the document and the
\* new search input is empty; renderProductsPage searches when the route has
\* a non-blank search parameter
navigate(to) ==
    /\ route' = to
    /\ inputValue' = <<>>
    /\ dropdown' = NoDropdown
    /\ searchEngine' = IF to.path = "/products" /\ Len(trim(to.search)) > 0
                       THEN SearchEffect(searchEngine, to.search, PageLimit)
                       ELSE searchEngine

\* this.hideSearchDropdown(); this.navigate(to)
HideThenNavigate(to) ==
    /\ removals' = IF dropdown.present THEN removals \cup {dropdown.el} ELSE removals
    /\ searchDropdownVisible' = FALSE
    /\ selectedSearchIndex' = -1
    /\ dismissed' = (dismissed \/ searchDropdownVisible)
    /\ navigate(to)

\* this.navigate(to); this.hideSearchDropdown(): the new header has no
\* dropdown for hideSearchDropdown to find
NavigateThenHide(to) ==
    /\ navigate(to)
    /\ UNCHANGED removals
    /\ searchDropdownVisible' = FALSE
    /\ selectedSearchIndex' = -1
    /\ dismissed' = (dismissed \/ searchDropdownVisible)

\* the keydown listener of the document, for a key pressed in .search-input
KeyDown(key) ==
    /\ phase = "ready"
    /\ IF ~(dropdown.present /\ searchDropdownVisible)
       THEN IF key = "Enter" /\ Len(trim(searchQuery)) > 0
            THEN NavigateThenHide(SearchRoute(searchQuery))
            ELSE UNCHANGED <<searchEngine, selectedSearchIndex, searchDropdownVisible,
                             domVars>>
       ELSE LET items == dropdown.results
                maxIndex == Len(items) - 1
            IN  CASE key = "ArrowDown" ->
                     /\ selectedSearchIndex' = ArrowDown(selectedSearchIndex, maxIndex)
                     /\ UNCHANGED <<searchEngine, searchDropdownVisible, domVars>>
                  [] key = "ArrowUp" ->
                     /\ selectedSearchIndex' = ArrowUp(selectedSearchIndex)
                     /\ UNCHANGED <<searchEngine, searchDropdownVisible, domVars>>
                  [] key = "Enter" ->
                     IF selectedSearchIndex >= 0 /\ selectedSearchIndex + 1 <= Len(items)
                     THEN \* items[this.selectedSearchIndex].click()
                          HideThenNavigate(ProductRoute(items[selectedSearchIndex + 1].id))
                     ELSE IF Len(trim(searchQuery)) > 0
                     THEN NavigateThenHide(SearchRoute(searchQuery))
                     ELSE UNCHANGED <<searchEngine, selectedSearchIndex,
                                      searchDropdownVisible, domVars>>
                  [] key = "Escape" ->
                     /\ hideSearchDropdown
                     /\ dismissed' = (dismissed \/ searchDropdownVisible)
                     /\ UNCHANGED <<searchEngine, pageVars>>
                  [] OTHER ->
                     UNCHANGED <<searchEngine, selectedSearchIndex, searchDropdownVisible,
                                 domVars>>
    /\ UNCHANGED <<phase, lastSearch, historyVars, trieVars, searchQuery, searchResults,
                   isSearching, timerVars, inputs>>

\* the click listener of the document, for a click on .search-btn
SearchButtonClick ==
    /\ phase = "ready"
    /\ IF Len(trim(inputValue)) > 0
       THEN HideThenNavigate(SearchRoute(trim(inputValue)))
       ELSE UNCHANGED <<searchEngine, selectedSearchIndex, searchDropdownVisible, domVars>>
    /\ UNCHANGED <<phase, lastSearch, historyVars, trieVars, searchQuery, searchResults,
                   isSearching, timerVars, inputs>>

Init ==
    /\ AppConstructed
    /\ EngineIdle
    /\ trie = NewTrie
    /\ inserted = {}
    /\ trieCall = NoCall

Next ==
    \/ \E products \in LoadedCatalogs : LoadInitialData(products)
    \/ \E query \in InputPool : HandleSearch(query)
    \/ \E handle \in DOMAIN timers : TimerExpire(handle)
    \/ \E handle \in DOMAIN timers : TimerFire(handle)
    \/ ClickOutside
    \/ \E el \in removals : DropdownRemove(el)
    \/ \E key \in Keys : KeyDown(key)
    \/ SearchButtonClick

Spec == Init /\ [][Next]_vars

\* some scheduled timer is due: TimerFire is enabled
TimerDue == \E handle \in DOMAIN timers : timers[handle].due

\* Time passes, and the event loop runs a timer that is due.  TimerFire is
\* enabled exactly when TimerDue holds, and leaves no timer due, so weak
\* fairness of TimerFire is []<>~TimerDue.
LiveSpec ==
    /\ Spec
    /\ WF_vars(\E handle \in DOMAIN timers : TimerExpire(handle))
    /\ []<>~TimerDue

\* the dropdown is on screen with the results of a search
ShowsResults == searchDropdownVisible /\ dropdown.present /\ ~dropdown.hiding

\* C1: whenever the dropdown shows results, they were computed for the value
\* most recently passed to handleSearch.
C1_ShownForLatestQuery ==
    ShowsResults => dropdown.query = searchQuery

\* C2: the calls of a burst run performSearch exactly once, with the arguments
\* of the burst's last call: nothing runs while the burst's timer is counting
\* or due, and once it has run, that one execution is all there is.
C2_BurstRunsLastOnce ==
    /\ Len(ran) <= 1
    /\ ran # <<>> => ran = <<burst[Len(burst)]>>
    /\ DOMAIN timers # {} => ran = <<>>
    /\ (burst # <<>> /\ DOMAIN timers = {}) => ran = <<burst[Len(burst)]>>

C2_Witness ==
    /\ Len(burst) >= 2
    /\ burst[1] # burst[Len(burst)]
    /\ ran = <<burst[Len(burst)]>>
    /\ searchResults # <<>>

\* C3: at most one invocation is scheduled at any time, and a timer that was
\* cancelled never fires.
C3_OnePendingTimer ==
    /\ Cardinality(DOMAIN timers) <= 1
    /\ DOMAIN timers \subseteq {timeout}
    /\ cancelled \cap fired = {}
    /\ cancelled \cap DOMAIN timers = {}

C3_Witness ==
    /\ cancelled # {}
    /\ fired # {}
    /\ Cardinality(DOMAIN timers) = 1

\* the n-th input event was the last one so far, and it called handleSearch
\* with a query that is not blank
Awaiting(n) == inputs = n /\ ~Blank(searchQuery)

\* performSearch(searchQuery) has run, and its results are the ones kept and
\* displayed
Performed ==
    /\ ran = <<searchQuery>>
    /\ searchResults = search(searchEngine, searchQuery, DropdownLimit)
    /\ ShowsResults => (dropdown.query = searchQuery /\ dropdown.results = searchResults)

\* C4: after handleSearch(q) with a non-blank q, either a further input event
\* occurs or performSearch(q) eventually runs and the displayed searchResults
\* are searchEngine.search(q, 8).
C4_SearchEventuallyRuns ==
    \A n \in 1..MaxInputs : Awaiting(n) ~> (inputs > n \/ Performed)

C4_Witness ==
    /\ inputs = 2
    /\ searchQuery = <<"b", "a">>
    /\ Performed
    /\ ShowsResults
    /\ searchResults # <<>>
    /\ fired = {2}

\* the Trie, the inverted index and the snapshot of an engine are those of
\* one catalog, whole
OneCatalog(engine) ==
    /\ \A product \in Range(engine.products) :
           /\ \A surface \in Surfaces(product) :
                  \A prefix \in Prefixes(toLowerCase(surface)) :
                      product.id \in Ids(TrieSearch(engine.trie, prefix))
           /\ \A term \in TermsOf(product) :
                  /\ term \in DOMAIN engine.searchIndex
                  /\ product.id \in engine.searchIndex[term]
    /\ \A path \in DOMAIN engine.trie :
           Range(engine.trie[path].products) \subseteq Range(engine.products)
    /\ \A term \in DOMAIN engine.searchIndex :
           engine.searchIndex[term] \subseteq
               {product.id : product \in
                   {x \in Range(engine.products) : term \in TermsOf(x)}}

\* C21: in every state of the application, so at every search the debounce
\* timer or a page makes, the engine holds the whole index of one catalog,
\* the empty one before loadInitialData has built and the loaded one after:
\* never a partly filled Trie, never parts of different catalogs.
C21_SearchSeesWholeIndex ==
    /\ OneCatalog(searchEngine)
    /\ phase = "loading" => searchEngine = NewSearchEngine
    /\ ran # <<>> => phase = "ready"

\* a debounced search has run on the index of a loaded catalog of two products
C21_Witness ==
    /\ Len(searchEngine.products) = 2
    /\ ran # <<>>
    /\ searchResults # <<>>

\* C28: once hideSearchDropdown has dismissed the dropdown, it is not on
\* screen again until a new input event arrives; a debounce timer scheduled
\* before the dismissal never re-opens it.
C28_NoReopenAfterDismissal ==
    dismissed => ~searchDropdownVisible

\* the result items of the dropdown on screen
DisplayedItems ==
    IF dropdown.present /\ searchDropdownVisible THEN Len(dropdown.results) ELSE 0

\* C30: after any sequence of input events, debounced searches, key presses
\* and dismissals, selectedSearchIndex lies in -1..(displayed items - 1), and
\* it is -1 right after every run of performSearch and of hideSearchDropdown.
C30_SelectionInRange ==
    /\ [](selectedSearchIndex \in -1..(DisplayedItems - 1))
    /\ [][fired' # fired => selectedSearchIndex' = -1]_vars
    /\ [][(searchDropdownVisible /\ ~searchDropdownVisible') =>
              selectedSearchIndex' = -1]_vars

\* ArrowDown has moved the selection to the last of two displayed items
C30_Witness ==
    /\ DisplayedItems = 2
    /\ selectedSearchIndex = 1
    /\ ~dropdown.hiding

====
